---- MODULE Spec2Model ----
(***************************************************************************)
(* Identity stitching of tailorloom: the customer store (customers,        *)
(* customer_sources, stitching_conflicts, the per-source record tables),   *)
(* stitchIdentity with its helpers, detectPostImportConflicts and the row   *)
(* loop of uploadCSV.                                                       *)
(*                                                                         *)
(* Every await of the code is one store operation.  StepResults gives the   *)
(* outcomes of the store operation a call is suspended at; a sequential     *)
(* call is the composition of its steps (Run), a concurrent call takes one  *)
(* step at a time.                                                          *)
(*                                                                         *)
(* The column mapping engine (normalizeHeader, diceCoefficient,            *)
(* checkSamplePattern, generateMappingSuggestions), the source detector    *)
(* (detectSource, isConfidentDetection), validateMappedRow and              *)
(* normalizeStatus are pure                                                 *)
(* functions: operators over strings as sequences of characters and exact   *)
(* rationals, applied by the actions of SpecMap to inputs drawn by InitMap. *)
(***************************************************************************)
EXTENDS Integers, Sequences, FiniteSets, TLC

VARIABLES
    customers,   \* table customers: sequence of rows, the id is the position
    sources,     \* table customer_sources: set of rows
    conflicts,   \* table stitching_conflicts: sequence of rows
    records,     \* tables payments / bookings / attendance: set of rows
    last,        \* the stitchIdentity call that completed last (sequential)
    call,        \* the stitchIdentity calls in flight, one per process
    imp,         \* the uploadCSV run in progress
    ncalls,      \* number of stitchIdentity calls and import rows so far
    nimports,    \* number of uploadCSV runs so far
    nfaults,     \* number of store operations that reported an error so far
    job          \* the call of a mapping, detection or validation function

vars == <<customers, sources, conflicts, records, last, call, imp, ncalls,
          nimports, nfaults, job>>

-----------------------------------------------------------------------------
(* Bounds *)

MaxCalls == 3
MaxImports == 2
MaxFaults == 1
MaxHeaders == 3
MaxStrLen == 3

-----------------------------------------------------------------------------
(* Values *)

NULL == "NULL"

Emails == {"a@x.io", "b@x.io"}
Names == {"Jo", "jo", "j_"}
Procs == {1, 2}

\* (source, externalId) pairs of the rows; "" is the id of a row without one.
Keys == {<<"stripe", "">>, <<"stripe", "x1">>, <<"calendly", "x1">>}

\* The arguments of the concurrent calls.
ConcArgs ==
    {[source |-> "stripe", externalId |-> x, email |-> e, name |-> n] :
        x \in {"x1", "x2"}, e \in {"a@x.io", NULL}, n \in {"Jo", NULL}}

ImportSources == {"stripe", "calendly"}

\* The arguments of the sequential calls.
SeqArgs ==
    {[source |-> k[1], externalId |-> k[2], email |-> e, name |-> n] :
        k \in Keys, e \in Emails \cup {NULL}, n \in Names \cup {NULL}}

\* The characters of a name (TLC cannot index a string).
NameChars ==
    ("Jo" :> <<"J", "o">>) @@ ("jo" :> <<"j", "o">>) @@ ("j_" :> <<"j", "_">>)
    @@ ("\\o" :> <<"\\", "o">>)

LowerChar(c) == IF c = "J" THEN "j" ELSE IF c = "O" THEN "o" ELSE c

\* PostgreSQL LIKE on character sequences: "_" matches any one character,
\* "%" any run of characters, a backslash makes the character after it
\* match itself (a pattern ending in a backslash is an error: no data), every
\* other character matches itself.
RECURSIVE Like(_, _)
Like(v, p) ==
    IF p = <<>> THEN v = <<>>
    ELSE IF Head(p) = "\\"
         THEN /\ Tail(p) # <<>>
              /\ v # <<>>
              /\ p[2] = Head(v)
              /\ Like(Tail(v), Tail(Tail(p)))
    ELSE IF Head(p) = "%"
         THEN Like(v, Tail(p)) \/ (v # <<>> /\ Like(Tail(v), p))
         ELSE /\ v # <<>>
              /\ (Head(p) = "_" \/ Head(p) = Head(v))
              /\ Like(Tail(v), Tail(p))

LowerSeq(s) == [i \in DOMAIN s |-> LowerChar(s[i])]

\* .ilike("name", pattern): ILIKE is LIKE on the lower-cased operands.
ILike(value, pattern) ==
    /\ value # NULL
    /\ Like(LowerSeq(NameChars[value]), LowerSeq(NameChars[pattern]))

\* Case-insensitive equality of two names.
SameNameCI(a, b) ==
    /\ a # NULL /\ b # NULL
    /\ LowerSeq(NameChars[a]) = LowerSeq(NameChars[b])

-----------------------------------------------------------------------------
(* Store operations *)

DB == [customers |-> customers, sources |-> sources, conflicts |-> conflicts]

CustomerIds(custs) == 1..Len(custs)

\* EmailTaken without idx_customers_org_email.
EmailTaken_never(custs, email) == FALSE

\* idx_customers_org_email: a non-null email occurs at most once.
EmailTaken(custs, email) ==
    email # NULL /\ \E i \in CustomerIds(custs) : custs[i].email = email

\* InsertCustomer as a plain insert that no index checks.
InsertCustomer_noIndex(custs, email, name) ==
    [error |-> FALSE,
     customers |-> Append(custs, [email |-> email, name |-> name]),
     id |-> Len(custs) + 1]

\* insert into customers; "error" when the unique index rejects the row.
InsertCustomer(custs, email, name) ==
    IF EmailTaken(custs, email)
    THEN [error |-> TRUE, customers |-> custs, id |-> 0]
    ELSE [error |-> FALSE,
          customers |-> Append(custs, [email |-> email, name |-> name]),
          id |-> Len(custs) + 1]

\* UpsertSource as an insert without the conflict target.
UpsertSource_insert(srcs, customerId, source, externalId, email, name) ==
    srcs \cup {[customer_id |-> customerId, source |-> source,
                external_id |-> externalId, external_email |-> email,
                external_name |-> name]}

\* upsert into customer_sources with onConflict (source, external_id).
UpsertSource(srcs, customerId, source, externalId, email, name) ==
    {s \in srcs : ~(s.source = source /\ s.external_id = externalId)}
    \cup {[customer_id |-> customerId, source |-> source,
           external_id |-> externalId, external_email |-> email,
           external_name |-> name]}

\* .maybeSingle(): the row when exactly one matches, otherwise no data.
MaybeSingle(rows) == IF Cardinality(rows) = 1 THEN rows ELSE {}

\* ConflictRow resolving the conflict on insert.
ConflictRow_merged(a, b, matchField, matchValue, confidence, importId) ==
    [customer_a_id |-> a, customer_b_id |-> b, match_field |-> matchField,
     match_value |-> matchValue, confidence |-> confidence,
     status |-> "merged", import_id |-> importId]

\* The row flagConflict inserts into stitching_conflicts.
ConflictRow(a, b, matchField, matchValue, confidence, importId) ==
    [customer_a_id |-> a, customer_b_id |-> b, match_field |-> matchField,
     match_value |-> matchValue, confidence |-> confidence,
     status |-> "pending", import_id |-> importId]

-----------------------------------------------------------------------------
(* stitchIdentity *)

Terminal == {"returned", "thrown"}

IdleFrame ==
    [pc |-> "idle", source |-> NULL, externalId |-> "", email |-> NULL,
     name |-> NULL, existing |-> 0, newCustomerId |-> 0, customerId |-> 0,
     isNew |-> FALSE, matchedBy |-> NULL, failed |-> {}, reached |-> {},
     violation |-> FALSE,
     nCustomers |-> 0, nSources |-> 0, nConflicts |-> 0]

\* A call with its arguments, before its first store operation.
NewFrame(db, source, externalId, email, name) ==
    [IdleFrame EXCEPT !.pc = "extLookup", !.source = source,
        !.externalId = externalId, !.email = email, !.name = name,
        !.nCustomers = Len(db.customers),
        !.nSources = Cardinality(db.sources),
        !.nConflicts = Len(db.conflicts)]

Goto(f, pc) == [f EXCEPT !.pc = pc, !.reached = @ \cup {pc}]

Return(f, customerId, isNew, matchedBy) ==
    [f EXCEPT !.pc = "returned", !.customerId = customerId,
        !.isNew = isNew, !.matchedBy = matchedBy]

Failed(f, op) == [f EXCEPT !.failed = @ \cup {op}]

Out(db, f) == [db |-> db, f |-> f]

\* createCustomer: throws when the insert fails.
createCustomer(db, f, next, fail) ==
    LET ins == InsertCustomer(db.customers, f.email, f.name) IN
    IF fail THEN Out(db, Failed(Goto(f, "thrown"), "createCustomer"))
    ELSE IF ins.error THEN Out(db, Goto([f EXCEPT !.violation = TRUE], "thrown"))
    ELSE Out([db EXCEPT !.customers = ins.customers],
             Goto([f EXCEPT !.newCustomerId = ins.id], next))

\* linkSourceToCustomer: an error of the upsert is logged, not thrown.
linkSourceToCustomer(db, f, customerId, fail) ==
    IF fail THEN db
    ELSE [db EXCEPT !.sources =
            UpsertSource(@, customerId, f.source, f.externalId, f.email, f.name)]

\* flagConflict: an error of the insert is logged, not thrown.
flagConflict(db, a, b, matchField, matchValue, confidence, importId, fail) ==
    IF fail THEN db
    ELSE [db EXCEPT !.conflicts =
            Append(@, ConflictRow(a, b, matchField, matchValue, confidence, importId))]

\* Step 1: the lookup in customer_sources by (source, external_id).
StepExtLookup(db, f, fail) ==
    IF f.externalId # ""
    THEN LET existingSource ==
                IF fail THEN {}
                ELSE MaybeSingle({s \in db.sources :
                        s.source = f.source /\ s.external_id = f.externalId})
             g == IF fail THEN Failed(f, "extLookup") ELSE f
         IN IF existingSource # {}
            THEN Out(db, Return(g, (CHOOSE s \in existingSource : TRUE).customer_id,
                                FALSE, "external_id"))
            ELSE Out(db, Goto(g, "emailLookup"))
    ELSE Out(db, Goto(f, "emailLookup"))

\* Step 2a: the lookup in customers by email.
StepEmailLookup(db, f, fail) ==
    IF f.email # NULL
    THEN LET customerByEmail ==
                IF fail THEN {}
                ELSE MaybeSingle({i \in CustomerIds(db.customers) :
                        db.customers[i].email = f.email})
             g == IF fail THEN Failed(f, "emailLookup") ELSE f
         IN IF customerByEmail # {}
            THEN Out(db, Goto([g EXCEPT !.existing =
                                CHOOSE i \in customerByEmail : TRUE], "linkEmail"))
            ELSE Out(db, Goto(g, "sourceEmailLookup"))
    ELSE Out(db, Goto(f, "nameLookup"))

\* Step 2b: the lookup in customer_sources by external_email, limit 1:
\* any one of the matching rows.
StepSourceEmailLookup(db, f, fail) ==
    LET rows == {s \in db.sources : s.external_email = f.email}
        g == IF fail THEN Failed(f, "sourceEmailLookup") ELSE f
    IN IF fail \/ rows = {}
       THEN {Out(db, Goto(g, "nameLookup"))}
       ELSE {Out(db, Goto([g EXCEPT !.existing = s.customer_id], "linkEmail")) :
                s \in rows}

\* StepLinkEmail returning the match without linking the source.
StepLinkEmail_noLink(db, f, fail) ==
    Out(db, Return(f, f.existing, FALSE, "email"))

\* Step 2, link and return.
StepLinkEmail(db, f, fail) ==
    Out(linkSourceToCustomer(db, f, f.existing, fail),
        Return(IF fail THEN Failed(f, "link") ELSE f, f.existing, FALSE, "email"))

\* .limit(5) of the name lookup.
NameLimit == 5

\* StepNameLookup merging the row into the customer of the same name.
StepNameLookup_merge(db, f, fail) ==
    LET matches == {i \in CustomerIds(db.customers) :
                        ILike(db.customers[i].name, f.name)}
    IN IF f.name # NULL /\ ~fail /\ Cardinality(matches) = 1
       THEN Out(db, Return(f, CHOOSE i \in matches : TRUE, FALSE, "name"))
       ELSE Out(db, Goto(f, "create"))

\* Step 3: the lookup in customers by name.
StepNameLookup(db, f, fail) ==
    IF f.name # NULL
    THEN LET matches == {i \in CustomerIds(db.customers) :
                            ILike(db.customers[i].name, f.name)}
             g == IF fail THEN Failed(f, "nameLookup") ELSE f
             length == IF Cardinality(matches) > NameLimit THEN NameLimit
                       ELSE Cardinality(matches)
         IN IF ~fail /\ length = 1
            THEN LET existingCustomer == CHOOSE i \in matches : TRUE
                     existingEmail == db.customers[existingCustomer].email
                 IN IF existingEmail # NULL /\ f.email # NULL
                       /\ existingEmail # f.email
                    THEN Out(db, Goto([g EXCEPT !.existing = existingCustomer],
                                      "createForConflict"))
                    ELSE Out(db, Goto(g, "create"))
            ELSE Out(db, Goto(g, "create"))
    ELSE Out(db, Goto(f, "create"))

\* StepLinkForConflict throwing the error of the upsert.
StepLinkForConflict_throws(db, f, fail) ==
    IF fail THEN Out(db, Failed(Goto(f, "thrown"), "link"))
    ELSE Out(linkSourceToCustomer(db, f, f.newCustomerId, fail),
             Goto(f, "flagConflict"))

\* Step 3, link the new customer.
StepLinkForConflict(db, f, fail) ==
    Out(linkSourceToCustomer(db, f, f.newCustomerId, fail),
        Goto(IF fail THEN Failed(f, "link") ELSE f, "flagConflict"))

\* Step 3, flag the conflict and return.
StepFlagConflict(db, f, fail) ==
    Out(flagConflict(db, f.existing, f.newCustomerId, "name", f.name, 60, NULL, fail),
        Return(IF fail THEN Failed(f, "flagConflict") ELSE f,
               f.newCustomerId, TRUE, "name"))

\* Step 4, link the new customer and return.
StepLink(db, f, fail) ==
    Out(linkSourceToCustomer(db, f, f.newCustomerId, fail),
        Return(IF fail THEN Failed(f, "link") ELSE f, f.newCustomerId, TRUE, "none"))

\* The outcomes of the store operation the call f is suspended at, with the
\* operation succeeding (fail = FALSE) or reporting an error (fail = TRUE).
StepOutcome(db, f, fail) ==
    CASE f.pc = "extLookup" -> {StepExtLookup(db, f, fail)}
      [] f.pc = "emailLookup" -> {StepEmailLookup(db, f, fail)}
      [] f.pc = "sourceEmailLookup" -> StepSourceEmailLookup(db, f, fail)
      [] f.pc = "linkEmail" -> {StepLinkEmail(db, f, fail)}
      [] f.pc = "nameLookup" -> {StepNameLookup(db, f, fail)}
      [] f.pc = "createForConflict" ->
            {createCustomer(db, f, "linkForConflict", fail)}
      [] f.pc = "linkForConflict" -> {StepLinkForConflict(db, f, fail)}
      [] f.pc = "flagConflict" -> {StepFlagConflict(db, f, fail)}
      [] f.pc = "create" -> {createCustomer(db, f, "link", fail)}
      [] f.pc = "link" -> {StepLink(db, f, fail)}
      [] OTHER -> {}

\* Every store operation succeeds unless a constraint of the schema
\* rejects it; while the call has reported fewer than budget errors, the
\* operation may also report an error.
StepResults(db, f, budget) ==
    StepOutcome(db, f, FALSE)
    \cup (IF Cardinality(f.failed) < budget THEN StepOutcome(db, f, TRUE) ELSE {})

\* A whole call: the composition of its steps.
RECURSIVE Run(_, _, _)
Run(db, f, budget) ==
    IF f.pc \in Terminal THEN {Out(db, f)}
    ELSE UNION {Run(o.db, o.f, budget) : o \in StepResults(db, f, budget)}

stitchIdentity(db, source, externalId, email, name, budget) ==
    Run(db, NewFrame(db, source, externalId, email, name), budget)

-----------------------------------------------------------------------------
(* detectPostImportConflicts *)

RECURSIVE SetToSeq(_)
\* The elements of a set of numbers in ascending order.
SetToSeq(S) ==
    IF S = {} THEN <<>>
    ELSE LET m == CHOOSE x \in S : \A y \in S : x <= y
         IN <<m>> \o SetToSeq(S \ {m})

RECURSIVE Concat(_)
Concat(ss) == IF ss = <<>> THEN <<>> ELSE Head(ss) \o Concat(Tail(ss))

\* The tables the import wrote its rows to.
RecordTables == {"payments", "bookings", "attendance"}

TableOf(source) ==
    CASE source = "stripe" -> "payments"
      [] source = "calendly" -> "bookings"
      [] source = "passline" -> "attendance"
      [] OTHER -> NULL

\* The operations of detectPostImportConflicts that can report an error.
DetectOps == {"sources", "records", "customers", "names", "existing", "flag"}

\* The customers referenced by a row of the import in one of the tables.
ImportCustomerIds(recs, importId, failing) ==
    IF "records" \in failing THEN {}
    ELSE {r.customer_id : r \in {x \in recs : x.import_id = importId}}

\* The name matches of one customer that have another email, as pairs.
NameCollisions(custs, c, failing) ==
    IF custs[c].name = NULL \/ "names" \in failing THEN <<>>
    ELSE LET nameMatches == {d \in CustomerIds(custs) :
                                d # c /\ ILike(custs[d].name, custs[c].name)}
             differing == {d \in nameMatches :
                            /\ custs[d].email # NULL /\ custs[c].email # NULL
                            /\ custs[d].email # custs[c].email}
             ds == SetToSeq(differing)
         IN [k \in DOMAIN ds |-> <<c, ds[k]>>]

\* ExistingConflict that never finds a record.
ExistingConflict_none(confs, a, b, failing) == {}

\* The existing conflict of a pair, in either order.
ExistingConflict(confs, a, b, failing) ==
    IF "existing" \in failing THEN {}
    ELSE MaybeSingle({k \in DOMAIN confs :
            \/ confs[k].customer_a_id = a /\ confs[k].customer_b_id = b
            \/ confs[k].customer_a_id = b /\ confs[k].customer_b_id = a})

RECURSIVE FlagPairs(_, _, _, _, _)
\* The loop over the colliding pairs: flag those without a conflict yet.
FlagPairs(db, pairs, importId, failing, conflictsFound) ==
    IF pairs = <<>> THEN [db |-> db, conflictsFound |-> conflictsFound]
    ELSE LET c == Head(pairs)[1]
             d == Head(pairs)[2]
         IN IF ExistingConflict(db.conflicts, c, d, failing) = {}
            THEN FlagPairs(flagConflict(db, c, d, "name", db.customers[c].name,
                                        50, importId, "flag" \in failing),
                           Tail(pairs), importId, failing, conflictsFound + 1)
            ELSE FlagPairs(db, Tail(pairs), importId, failing, conflictsFound)

\* The call with the operations in failing reporting an error.  The rows
\* of a query come in ascending id order.
detectPostImportConflicts(db, recs, importId, failing) ==
    LET ids == ImportCustomerIds(recs, importId, failing)
        importCustomers == SetToSeq(ids)
        pairs == Concat([k \in DOMAIN importCustomers |->
                    NameCollisions(db.customers, importCustomers[k], failing)])
    IN IF "sources" \in failing \/ db.sources = {} THEN [db |-> db, conflictsFound |-> 0]
       ELSE IF ids = {} THEN [db |-> db, conflictsFound |-> 0]
       ELSE IF "customers" \in failing THEN [db |-> db, conflictsFound |-> 0]
       ELSE FlagPairs(db, pairs, importId, failing, 0)

-----------------------------------------------------------------------------
(* uploadCSV *)

\* A parsed row after applyMapping and validateMappedRow: the number of its
\* validation errors, its identity fields and the unique id of its record.
InvalidRows ==
    {[rowErrors |-> n, externalId |-> "x1", email |-> "a@x.io", name |-> "Jo",
      key |-> NULL] : n \in {1, 2}}

RowIdentities ==
    {<<"x1", "a@x.io", "Jo">>, <<"", "a@x.io", "Jo">>, <<"x1", "b@x.io", "jo">>,
     <<"", "b@x.io", "j_">>, <<"", NULL, "Jo">>, <<"", NULL, NULL>>,
     <<"", "a@x.io", "\\o">>, <<"", "b@x.io", "\\o">>}

ValidRows ==
    {[rowErrors |-> 0, externalId |-> id[1], email |-> id[2], name |-> id[3],
      key |-> NULL] : id \in RowIdentities}
    \cup {[rowErrors |-> 0, externalId |-> "x1", email |-> "a@x.io",
           name |-> "Jo", key |-> "p1"]}

RowSet == ValidRows \cup InvalidRows

\* The rows of the imports during which the store reports errors.
FaultRows ==
    {[rowErrors |-> 0, externalId |-> r[1], email |-> r[2], name |-> r[3],
      key |-> NULL] :
        r \in {<<"x1", "a@x.io", "Jo">>, <<"", "a@x.io", "Jo">>,
               <<"", "b@x.io", "jo">>, <<"x1", NULL, "Jo">>}}

\* totalRows is the number of rows of the file; the loop does not look ahead,
\* so row i of the file is drawn when the loop reads it.
IdleImport ==
    [active |-> FALSE, importId |-> 0, source |-> NULL, totalRows |-> 0, i |-> 0,
     importedRows |-> 0, skippedRows |-> 0, errorRows |-> 0, errors |-> <<>>,
     status |-> NULL, outcomes |-> <<>>, conflictsFound |-> 0]

\* insertSourceRow: "inserted", "duplicate" (unique violation 23505, the
\* row is skipped) or "error" (any other error, thrown).
insertSourceRow(recs, source, row, customerId, importId, fail) ==
    LET table == TableOf(source)
        rec == [table |-> table, customer_id |-> customerId,
                import_id |-> importId, key |-> row.key]
    IN IF fail THEN [result |-> "error", records |-> recs]
       ELSE IF row.key # NULL /\ \E r \in recs : r.table = table /\ r.key = row.key
       THEN [result |-> "duplicate", records |-> recs]
       ELSE [result |-> "inserted", records |-> recs \cup {rec}]

\* RowInvalid counting one error row for each validation error.
RowInvalid_perError(im, row) ==
    [im EXCEPT !.i = @ + 1, !.errorRows = @ + row.rowErrors,
        !.errors = @ \o [k \in 1..row.rowErrors |-> im.i + 1],
        !.outcomes = Append(@, "invalid")]

\* The row with validation errors: its errors are collected, it is counted
\* once and the loop continues with the next row.
RowInvalid(im, row) ==
    [im EXCEPT !.i = @ + 1, !.errorRows = @ + 1,
        !.errors = @ \o [k \in 1..row.rowErrors |-> im.i + 1],
        !.outcomes = Append(@, "invalid")]

\* RowCaught ending the import at the failed row.
RowCaught_abort(im, what) ==
    [im EXCEPT !.i = @ + 1, !.errorRows = @ + 1,
        !.errors = Append(@, im.i + 1), !.outcomes = Append(@, what),
        !.active = FALSE, !.status = "failed"]

\* The catch block of the row loop.
RowCaught(im, what) ==
    [im EXCEPT !.i = @ + 1, !.errorRows = @ + 1,
        !.errors = Append(@, im.i + 1), !.outcomes = Append(@, what)]

\* RowInserted counting a duplicate row as imported and as skipped.
RowInserted_both(im, inserted) ==
    IF inserted
    THEN [im EXCEPT !.i = @ + 1, !.importedRows = @ + 1,
            !.outcomes = Append(@, "imported")]
    ELSE [im EXCEPT !.i = @ + 1, !.importedRows = @ + 1, !.skippedRows = @ + 1,
            !.outcomes = Append(@, "skipped")]

RowInserted(im, inserted) ==
    IF inserted
    THEN [im EXCEPT !.i = @ + 1, !.importedRows = @ + 1,
            !.outcomes = Append(@, "imported")]
    ELSE [im EXCEPT !.i = @ + 1, !.skippedRows = @ + 1,
            !.outcomes = Append(@, "skipped")]

-----------------------------------------------------------------------------
(* Strings and numbers of the mapping engine *)

\* A string is the sequence of its characters.  The letters and digits that
\* survive normalizeHeader, the upper-case letters and the white space.
LowerCase ==
    <<"a", "b", "c", "d", "e", "f", "g", "h", "i", "j", "k", "l", "m",
      "n", "o", "p", "q", "r", "s", "t", "u", "v", "w", "x", "y", "z">>

UpperCase ==
    <<"A", "B", "C", "D", "E", "F", "G", "H", "I", "J", "K", "L", "M",
      "N", "O", "P", "Q", "R", "S", "T", "U", "V", "W", "X", "Y", "Z">>

Digits == {"0", "1", "2", "3", "4", "5", "6", "7", "8", "9"}

WhiteSpace == {" ", "\t"}

toLowerCase(s) ==
    [i \in DOMAIN s |->
        IF \E k \in DOMAIN UpperCase : UpperCase[k] = s[i]
        THEN LowerCase[CHOOSE k \in DOMAIN UpperCase : UpperCase[k] = s[i]]
        ELSE s[i]]

IsKept(c) == (\E k \in DOMAIN LowerCase : LowerCase[k] = c) \/ c \in Digits
                \/ c \in WhiteSpace

RECURSIVE CollapseSpace(_)
\* .replace(/\s+/g, " "): every run of white space becomes one space.
CollapseSpace(s) ==
    IF s = <<>> THEN <<>>
    ELSE IF Head(s) \in WhiteSpace
         THEN IF Len(s) > 1 /\ s[2] \in WhiteSpace
              THEN CollapseSpace(Tail(s))
              ELSE <<" ">> \o CollapseSpace(Tail(s))
         ELSE <<Head(s)>> \o CollapseSpace(Tail(s))

RECURSIVE trim(_)
trim(s) ==
    IF s = <<>> THEN s
    ELSE IF Head(s) \in WhiteSpace THEN trim(Tail(s))
    ELSE IF s[Len(s)] \in WhiteSpace THEN trim(SubSeq(s, 1, Len(s) - 1))
    ELSE s

\* normalizeHeader: lower case, strip what is not a letter, a digit or white
\* space, collapse white space, trim.
normalizeHeader(header) ==
    trim(CollapseSpace(SelectSeq(toLowerCase(header), IsKept)))

\* A number of the engine is an exact fraction n/d in lowest terms.
RECURSIVE GCD(_, _)
GCD(a, b) == IF b = 0 THEN a ELSE GCD(b, a % b)

Rat(n, d) == LET g == GCD(n, d) IN [n |-> n \div g, d |-> d \div g]

Zero == Rat(0, 1)
One == Rat(1, 1)
RLt(x, y) == x.n * y.d < y.n * x.d
RLe(x, y) == x.n * y.d <= y.n * x.d
RAdd(x, y) == Rat(x.n * y.d + y.n * x.d, x.d * y.d)
RMul(x, y) == Rat(x.n * y.n, x.d * y.d)
RMin(x, y) == IF RLt(y, x) THEN y ELSE x
RMax(x, y) == IF RLt(x, y) THEN y ELSE x

-----------------------------------------------------------------------------
(* Similarity scorer *)

Bigrams(s) == [i \in 1..(Len(s) - 1) |-> SubSeq(s, i, i + 1)]

\* bigramsA: the number of occurrences in a of each of its bigrams.
BigramCounts(a) ==
    LET bg == Bigrams(a)
    IN [g \in {bg[i] : i \in DOMAIN bg} |->
            Cardinality({i \in DOMAIN bg : bg[i] = g})]

RECURSIVE Intersection_noConsume(_, _, _)
\* Intersection that leaves the matched bigram in the multiset of a.
Intersection_noConsume(counts, bg, i) ==
    IF i > Len(bg) THEN 0
    ELSE IF bg[i] \in DOMAIN counts /\ counts[bg[i]] > 0
         THEN 1 + Intersection_noConsume(counts, bg, i + 1)
         ELSE Intersection_noConsume(counts, bg, i + 1)

RECURSIVE Intersection(_, _, _)
\* The scan of the bigrams of b from the i-th on: a bigram still in the
\* multiset of a is consumed and counted.
Intersection(counts, bg, i) ==
    IF i > Len(bg) THEN 0
    ELSE IF bg[i] \in DOMAIN counts /\ counts[bg[i]] > 0
         THEN 1 + Intersection([counts EXCEPT ![bg[i]] = @ - 1], bg, i + 1)
         ELSE Intersection(counts, bg, i + 1)

diceCoefficient(a, b) ==
    IF a = b THEN One
    ELSE IF Len(a) < 2 \/ Len(b) < 2 THEN Zero
    ELSE Rat(2 * Intersection(BigramCounts(a), Bigrams(b), 1),
             (Len(a) - 1) + (Len(b) - 1))

\* A sample pattern is the set of the trimmed sample values its regular
\* expression matches.  A sample row maps headers to values; the values of
\* the model, with their trimmed forms.
SampleValues == {"", " ", "a@x.io", " 12 ", "zz"}

TrimValue(v) == IF v = " " THEN "" ELSE IF v = " 12 " THEN "12" ELSE v

RECURSIVE CountSamples(_, _, _, _)
\* <<matches, total>> over the sample rows from the i-th on.
CountSamples(sampleRows, csvHeader, pattern, i) ==
    IF i > Len(sampleRows) THEN <<0, 0>>
    ELSE LET rest == CountSamples(sampleRows, csvHeader, pattern, i + 1)
             row == sampleRows[i]
             val == IF csvHeader \in DOMAIN row THEN TrimValue(row[csvHeader])
                    ELSE ""
         IN IF val = "" THEN rest
            ELSE <<rest[1] + (IF val \in pattern THEN 1 ELSE 0), rest[2] + 1>>

checkSamplePattern(sampleRows, csvHeader, pattern) ==
    IF Len(sampleRows) = 0 THEN Zero
    ELSE LET c == CountSamples(sampleRows, csvHeader, pattern, 1)
         IN IF c[2] = 0 THEN Zero
            ELSE RMul(Rat(c[1], c[2]), Rat(85, 100))

-----------------------------------------------------------------------------
(* Mapping suggestion engine *)

\* The null schemaField (field keys are not empty) and the null bestMatch.
NullField == <<>>

NoMatch == [field |-> NullField, confidence |-> Zero, matchType |-> "none"]

Match(field, confidence, matchType) ==
    [field |-> field.key, confidence |-> confidence, matchType |-> matchType]

\* The stable sort that puts the required fields first.
sortedFields(schema) ==
    SelectSeq(schema.fields, LAMBDA f : f.required)
        \o SelectSeq(schema.fields, LAMBDA f : ~f.required)

RECURSIVE MaxSimilarity(_, _, _)
\* Math.max over the dice coefficients of the strings from the i-th on.
MaxSimilarity(normalized, strings, i) ==
    IF i > Len(strings) THEN Zero
    ELSE RMax(diceCoefficient(normalized, strings[i]),
              MaxSimilarity(normalized, strings, i + 1))

\* ScoreField keeping the first candidate found for the header.
ScoreField_firstWins(bestMatch, csvHeader, field, sampleRows) ==
    LET normalized == normalizeHeader(csvHeader)
        none == bestMatch.matchType = "none"
        names == <<normalizeHeader(field.key), normalizeHeader(field.label)>>
                    \o [k \in DOMAIN field.aliases |-> normalizeHeader(field.aliases[k])]
        maxSim == MaxSimilarity(normalized, names, 1)
    IN IF ~none THEN bestMatch
       ELSE IF normalized = names[1] \/ normalized = names[2]
       THEN Match(field, One, "exact")
       ELSE IF \E k \in DOMAIN field.aliases :
                    normalizeHeader(field.aliases[k]) = normalized
       THEN Match(field, Rat(95, 100), "alias")
       ELSE IF RLt(Rat(6, 10), maxSim)
       THEN Match(field, RMin(maxSim, Rat(9, 10)), "similarity")
       ELSE bestMatch

\* The body of the loop over the fields for one header: the cascade exact,
\* alias, similarity, sample pattern against the best match so far.
ScoreField(bestMatch, csvHeader, field, sampleRows) ==
    LET normalized == normalizeHeader(csvHeader)
        none == bestMatch.matchType = "none"
        fieldNormalized == normalizeHeader(field.key)
        labelNormalized == normalizeHeader(field.label)
        aliasNormalized ==
            [k \in DOMAIN field.aliases |-> normalizeHeader(field.aliases[k])]
        maxSim == MaxSimilarity(normalized,
                    <<fieldNormalized, labelNormalized>> \o aliasNormalized, 1)
        conf == RMin(maxSim, Rat(9, 10))
        afterSim ==
            IF RLt(Rat(6, 10), maxSim) /\ (none \/ RLt(bestMatch.confidence, conf))
            THEN Match(field, conf, "similarity")
            ELSE bestMatch
        patternConf == checkSamplePattern(sampleRows, csvHeader, field.samplePattern)
    IN IF normalized = fieldNormalized \/ normalized = labelNormalized
       THEN IF none \/ RLt(bestMatch.confidence, One)
            THEN Match(field, One, "exact") ELSE bestMatch
       ELSE IF \E k \in DOMAIN aliasNormalized : aliasNormalized[k] = normalized
       THEN IF none \/ RLt(bestMatch.confidence, Rat(95, 100))
            THEN Match(field, Rat(95, 100), "alias") ELSE bestMatch
       ELSE IF /\ field.hasPattern
               /\ RLt(Rat(3, 10), patternConf)
               /\ (afterSim.matchType = "none" \/ RLt(afterSim.confidence, patternConf))
       THEN Match(field, patternConf, "pattern")
       ELSE afterSim

RECURSIVE BestMatch(_, _, _, _)
\* bestMatch after the fields from the i-th on, in the order of sortedFields.
BestMatch(bestMatch, csvHeader, fields, sampleRows) ==
    IF fields = <<>> THEN bestMatch
    ELSE BestMatch(ScoreField(bestMatch, csvHeader, Head(fields), sampleRows),
                   csvHeader, Tail(fields), sampleRows)

\* A Map is the sequence of its entries [key, value] in insertion order.
MapHas(m, k) == \E i \in DOMAIN m : m[i].key = k

MapGet(m, k) == m[CHOOSE i \in DOMAIN m : m[i].key = k].value

MapSet(m, k, v) ==
    IF MapHas(m, k)
    THEN [i \in DOMAIN m |-> IF m[i].key = k THEN [key |-> k, value |-> v] ELSE m[i]]
    ELSE Append(m, [key |-> k, value |-> v])

MapDelete(m, k) == SelectSeq(m, LAMBDA e : e.key # k)

RECURSIVE FirstPass(_, _, _, _)
\* headerScores after the first pass over the headers from the i-th on.
FirstPass(headerScores, csvHeaders, schema, sampleRows) ==
    IF csvHeaders = <<>> THEN headerScores
    ELSE LET bestMatch == BestMatch(NoMatch, Head(csvHeaders),
                                    sortedFields(schema), sampleRows)
         IN FirstPass(IF bestMatch.matchType = "none" THEN headerScores
                      ELSE MapSet(headerScores, Head(csvHeaders), bestMatch),
                      Tail(csvHeaders), schema, sampleRows)

RECURSIVE GroupByField(_, _)
\* fieldToHeaders: the headers of headerScores grouped by their field.
GroupByField(fieldToHeaders, headerScores) ==
    IF headerScores = <<>> THEN fieldToHeaders
    ELSE LET e == Head(headerScores)
             existing == IF MapHas(fieldToHeaders, e.value.field)
                         THEN MapGet(fieldToHeaders, e.value.field) ELSE <<>>
             entry == [csvHeader |-> e.key, confidence |-> e.value.confidence,
                       matchType |-> e.value.matchType]
         IN GroupByField(MapSet(fieldToHeaders, e.value.field,
                                Append(existing, entry)),
                         Tail(headerScores))

RECURSIVE InsertDesc(_, _)
InsertDesc(sorted, x) ==
    IF sorted = <<>> THEN <<x>>
    ELSE IF RLt(Head(sorted).confidence, x.confidence) THEN <<x>> \o sorted
    ELSE <<Head(sorted)>> \o InsertDesc(Tail(sorted), x)

RECURSIVE SortDesc(_)
\* matches.sort((a, b) => b.confidence - a.confidence): stable, descending.
SortDesc(matches) ==
    IF matches = <<>> THEN <<>>
    ELSE InsertDesc(SortDesc(SubSeq(matches, 1, Len(matches) - 1)),
                    matches[Len(matches)])

RECURSIVE DeleteAll(_, _, _)
DeleteAll(headerScores, matches, i) ==
    IF i > Len(matches) THEN headerScores
    ELSE DeleteAll(MapDelete(headerScores, matches[i].csvHeader), matches, i + 1)

RECURSIVE ResolveConflicts(_, _)
\* The second pass: of the headers of one field the best stays, the others
\* are deleted from headerScores.
ResolveConflicts(headerScores, fieldToHeaders) ==
    IF fieldToHeaders = <<>> THEN headerScores
    ELSE LET field == Head(fieldToHeaders).key
             matches == IF Len(Head(fieldToHeaders).value) > 1
                        THEN SortDesc(Head(fieldToHeaders).value)
                        ELSE Head(fieldToHeaders).value
             winner == matches[1]
             kept == MapSet(DeleteAll(headerScores, matches, 2), winner.csvHeader,
                            [field |-> field, confidence |-> winner.confidence,
                             matchType |-> winner.matchType])
         IN ResolveConflicts(kept, Tail(fieldToHeaders))

Suggestion(csvHeader, headerScores) ==
    IF MapHas(headerScores, csvHeader)
    THEN LET match == MapGet(headerScores, csvHeader)
         IN [csvHeader |-> csvHeader, schemaField |-> match.field,
             confidence |-> match.confidence, matchType |-> match.matchType]
    ELSE [csvHeader |-> csvHeader, schemaField |-> NullField,
          confidence |-> Zero, matchType |-> "none"]

\* BuildSuggestions that leaves out the headers without a match.
BuildSuggestions_mappedOnly(csvHeaders, headerScores) ==
    LET mapped == SelectSeq(csvHeaders, LAMBDA h : MapHas(headerScores, h))
    IN [i \in DOMAIN mapped |-> Suggestion(mapped[i], headerScores)]

\* The final loop: one suggestion for each header, in the order of the input.
BuildSuggestions(csvHeaders, headerScores) ==
    [i \in DOMAIN csvHeaders |-> Suggestion(csvHeaders[i], headerScores)]

generateMappingSuggestions(csvHeaders, schema, sampleRows) ==
    LET scored == FirstPass(<<>>, csvHeaders, schema, sampleRows)
        resolved == ResolveConflicts(scored, GroupByField(<<>>, scored))
    IN BuildSuggestions(csvHeaders, resolved)

-----------------------------------------------------------------------------
(* Schemas *)

Field(key, label, type, required, aliases) ==
    [key |-> key, label |-> label, type |-> type, required |-> required,
     aliases |-> aliases, hasPattern |-> FALSE, samplePattern |-> {},
     enumValues |-> {}]

EmailPattern == {"a@x.io"}
NumberPattern == {"12"}

STRIPE_SCHEMA ==
    [source |-> "stripe",
     fields |-> <<
        Field(<<"p", "i", "d">>, <<"P", "a", "y", "m", "e", "n", "t">>, "text",
              TRUE, <<<<"r", "e", "f">>, <<"I", "d">>>>),
        [Field(<<"e", "m", "a", "i", "l">>, <<"E", "m", "a", "i", "l">>, "email",
               TRUE, <<>>)
            EXCEPT !.hasPattern = TRUE, !.samplePattern = EmailPattern],
        [Field(<<"a", "m", "o", "u", "n", "t">>, <<"A", "m", "o", "u", "n", "t">>,
               "currency", TRUE, <<<<"t", "o", "t", "a", "l">>>>)
            EXCEPT !.hasPattern = TRUE, !.samplePattern = NumberPattern],
        [Field(<<"s", "t", "a", "t", "u", "s">>, <<"S", "t", "a", "t", "u", "s">>,
               "enum", FALSE, <<>>)
            EXCEPT !.enumValues = {"succeeded", "failed"}] >>]

CALENDLY_SCHEMA ==
    [source |-> "calendly",
     fields |-> <<
        Field(<<"s", "t", "a", "r", "t">>, <<"S", "t", "a", "r", "t">>,
              "timestamp", FALSE, <<>>),
        [Field(<<"m", "a", "i", "l">>, <<"E", "-", "m", "a", "i", "l">>, "email",
               TRUE, <<>>)
            EXCEPT !.hasPattern = TRUE, !.samplePattern = EmailPattern] >>]

PASSLINE_SCHEMA ==
    [source |-> "passline",
     fields |-> <<
        Field(<<"n", "a", "m", "e", "s">>, <<"G", "u", "e", "s", "t", "s">>,
              "text", FALSE, <<>>),
        Field(<<"n", "a", "m", "e">>, <<"N", "a", "m", "e">>, "text", FALSE, <<>>),
        Field(<<"e", "m", "a", "i", "l">>, <<"E", "m", "a", "i", "l">>, "email",
              FALSE, <<>>),
        Field(<<"s", "e", "a", "t", "s">>, <<"S", "e", "a", "t", "s">>, "number",
              TRUE, <<>>) >>]

\* The registered schemas, in the order of Object.entries(SCHEMAS).
SCHEMAS == <<STRIPE_SCHEMA, CALENDLY_SCHEMA, PASSLINE_SCHEMA>>

-----------------------------------------------------------------------------
(* Source detector *)

RECURSIVE SumConfidence(_)
SumConfidence(suggestions) ==
    IF suggestions = <<>> THEN Zero
    ELSE RAdd(Head(suggestions).confidence, SumConfidence(Tail(suggestions)))

\* The result of detectSource for one schema, from the suggestions that
\* generateMappingSuggestions returned for it.
ScoreSchema(suggestions, schema) ==
    LET mapped == SelectSeq(suggestions, LAMBDA s : s.schemaField # NullField)
        avgConfidence ==
            IF Len(mapped) > 0
            THEN RMul(SumConfidence(mapped), Rat(1, Len(mapped))) ELSE Zero
        requiredFields == SelectSeq(schema.fields, LAMBDA f : f.required)
        requiredMapped ==
            Len(SelectSeq(requiredFields,
                    LAMBDA f : \E i \in DOMAIN mapped : mapped[i].schemaField = f.key))
        coverage == Rat(Len(mapped), Len(schema.fields))
        requiredCoverage ==
            IF Len(requiredFields) > 0
            THEN Rat(requiredMapped, Len(requiredFields)) ELSE One
    IN [source |-> schema.source,
        confidence |-> RAdd(RAdd(RMul(avgConfidence, Rat(4, 10)),
                                 RMul(coverage, Rat(2, 10))),
                            RMul(requiredCoverage, Rat(4, 10))),
        mappedCount |-> Len(mapped),
        requiredMapped |-> requiredMapped,
        requiredTotal |-> Len(requiredFields)]

\* The body of the loop of detectSource for one schema.
DetectionResult(headers, schema, sampleRows) ==
    ScoreSchema(generateMappingSuggestions(headers, schema, sampleRows), schema)

\* detectSource returning the results in the order of the schemas.
detectSource_unsorted(headers, sampleRows) ==
    [k \in DOMAIN SCHEMAS |-> DetectionResult(headers, SCHEMAS[k], sampleRows)]

detectSource(headers, sampleRows) ==
    SortDesc([k \in DOMAIN SCHEMAS |->
                DetectionResult(headers, SCHEMAS[k], sampleRows)])

\* isConfidentDetection without the test of the required fields.
isConfidentDetection_noRequired(results) ==
    IF Len(results) = 0 THEN FALSE
    ELSE IF RLt(results[1].confidence, Rat(5, 10)) THEN FALSE
    ELSE IF Len(results) > 1
            /\ RLt(results[1].confidence,
                   RAdd(results[2].confidence, Rat(15, 100))) THEN FALSE
    ELSE TRUE

\* top.confidence - runnerUp.confidence < 0.15 is, in exact arithmetic,
\* top.confidence < runnerUp.confidence + 0.15.
isConfidentDetection(results) ==
    IF Len(results) = 0 THEN FALSE
    ELSE IF RLt(results[1].confidence, Rat(5, 10)) THEN FALSE
    ELSE IF results[1].requiredMapped < results[1].requiredTotal THEN FALSE
    ELSE IF Len(results) > 1
            /\ RLt(results[1].confidence,
                   RAdd(results[2].confidence, Rat(15, 100))) THEN FALSE
    ELSE TRUE

-----------------------------------------------------------------------------
(* Row validator *)

\* The values of a mapped row: null, empty, blank, and for each type one value
\* that passes its check and values that fail it.
EmptyValues == {NULL, "", " "}

\* EMAIL_REGEX, parseNumber, parseCurrency, parseTimestamp and the enum test
\* on the values of the model.
TypeValid(field, value) ==
    CASE field.type = "email" -> value \in {"a@x.io"}
      [] field.type = "number" -> value \in {"12"}
      [] field.type = "currency" -> value \in {"12", "$12"}
      [] field.type \in {"date", "timestamp"} -> value \in {"2024-01-02"}
      [] field.type = "enum" ->
            field.enumValues = {}
            \/ (IF value = "Failed" THEN "failed" ELSE value) \in field.enumValues
      [] OTHER -> TRUE

\* row[field.key]?.trim() ?? "".
FieldValue(row, field) ==
    IF field.key \notin DOMAIN row \/ row[field.key] = NULL THEN ""
    ELSE TrimValue(row[field.key])

ValidationError(rowIndex, field, message, value) ==
    [row |-> rowIndex, field |-> field.key, message |-> message, value |-> value]

\* The body of the loop of validateMappedRow: the errors of one field.
FieldErrors(row, field, rowIndex) ==
    LET value == FieldValue(row, field)
    IN IF field.required /\ value = ""
       THEN <<ValidationError(rowIndex, field, "required", "")>>
       ELSE IF value = "" THEN <<>>
       ELSE IF ~TypeValid(field, value)
       THEN <<ValidationError(rowIndex, field, field.type, value)>>
       ELSE <<>>

RECURSIVE ValidateFields(_, _, _)
ValidateFields(row, fields, rowIndex) ==
    IF fields = <<>> THEN <<>>
    ELSE FieldErrors(row, Head(fields), rowIndex)
            \o ValidateFields(row, Tail(fields), rowIndex)

\* validateMappedRow returning at the first error.
validateMappedRow_firstOnly(row, schema, rowIndex) ==
    LET errors == ValidateFields(row, schema.fields, rowIndex)
    IN IF errors = <<>> THEN <<>> ELSE <<errors[1]>>

validateMappedRow(row, schema, rowIndex) ==
    ValidateFields(row, schema.fields, rowIndex)

-----------------------------------------------------------------------------
(* Status normalizer *)

\* A status map is the sequence of its entries <<key, value>>.
PAYMENT_STATUS_MAP ==
    <<<<<<"s", "u", "c", "c", "e", "e", "d", "e", "d">>,
        <<"s", "u", "c", "c", "e", "e", "d", "e", "d">>>>,
      <<<<"p", "a", "i", "d">>,
        <<"s", "u", "c", "c", "e", "e", "d", "e", "d">>>>,
      <<<<"c", "o", "m", "p", "l", "e", "t", "e">>,
        <<"s", "u", "c", "c", "e", "e", "d", "e", "d">>>>,
      <<<<"p", "e", "n", "d", "i", "n", "g">>,
        <<"p", "e", "n", "d", "i", "n", "g">>>>,
      <<<<"p", "r", "o", "c", "e", "s", "s", "i", "n", "g">>,
        <<"p", "e", "n", "d", "i", "n", "g">>>>,
      <<<<"f", "a", "i", "l", "e", "d">>,
        <<"f", "a", "i", "l", "e", "d">>>>,
      <<<<"d", "e", "c", "l", "i", "n", "e", "d">>,
        <<"f", "a", "i", "l", "e", "d">>>>,
      <<<<"r", "e", "f", "u", "n", "d", "e", "d">>,
        <<"r", "e", "f", "u", "n", "d", "e", "d">>>>,
      <<<<"p", "a", "r", "t", "i", "a", "l", "l", "y", "_", "r", "e", "f", "u", "n", "d", "e", "d">>,
        <<"r", "e", "f", "u", "n", "d", "e", "d">>>>>>

BOOKING_STATUS_MAP ==
    <<<<<<"s", "c", "h", "e", "d", "u", "l", "e", "d">>,
        <<"s", "c", "h", "e", "d", "u", "l", "e", "d">>>>,
      <<<<"a", "c", "t", "i", "v", "e">>,
        <<"s", "c", "h", "e", "d", "u", "l", "e", "d">>>>,
      <<<<"c", "o", "n", "f", "i", "r", "m", "e", "d">>,
        <<"s", "c", "h", "e", "d", "u", "l", "e", "d">>>>,
      <<<<"u", "p", "c", "o", "m", "i", "n", "g">>,
        <<"s", "c", "h", "e", "d", "u", "l", "e", "d">>>>,
      <<<<"c", "o", "m", "p", "l", "e", "t", "e", "d">>,
        <<"c", "o", "m", "p", "l", "e", "t", "e", "d">>>>,
      <<<<"d", "o", "n", "e">>,
        <<"c", "o", "m", "p", "l", "e", "t", "e", "d">>>>,
      <<<<"c", "a", "n", "c", "e", "l", "l", "e", "d">>,
        <<"c", "a", "n", "c", "e", "l", "l", "e", "d">>>>,
      <<<<"c", "a", "n", "c", "e", "l", "e", "d">>,
        <<"c", "a", "n", "c", "e", "l", "l", "e", "d">>>>,
      <<<<"n", "o", "_", "s", "h", "o", "w">>,
        <<"n", "o", "_", "s", "h", "o", "w">>>>,
      <<<<"n", "o", " ", "s", "h", "o", "w">>,
        <<"n", "o", "_", "s", "h", "o", "w">>>>,
      <<<<"n", "o", "s", "h", "o", "w">>,
        <<"n", "o", "_", "s", "h", "o", "w">>>>>>

\* The keys every object literal inherits from Object.prototype that are in
\* lower case, and what a lookup of such a key gives (not a string).
InheritedKeys == {<<"c", "o", "n", "s", "t", "r", "u", "c", "t", "o", "r">>}
InheritedValue == <<"function Object">>

\* map[key]: the value of the entry, an inherited property, or undefined.
Lookup(map, key) ==
    IF \E i \in DOMAIN map : map[i][1] = key
    THEN [found |-> TRUE,
          value |-> map[CHOOSE i \in DOMAIN map : map[i][1] = key][2]]
    ELSE IF key \in InheritedKeys THEN [found |-> TRUE, value |-> InheritedValue]
    ELSE [found |-> FALSE, value |-> <<>>]

\* map[normalized] ?? normalized
LookupOr(map, normalized) ==
    IF Lookup(map, normalized).found THEN Lookup(map, normalized).value
    ELSE normalized

normalizeStatus(value, source) ==
    LET normalized == trim(toLowerCase(value))
    IN CASE source = "stripe" -> LookupOr(PAYMENT_STATUS_MAP, normalized)
         [] source = "calendly" -> LookupOr(BOOKING_STATUS_MAP, normalized)
         [] OTHER -> normalized

-----------------------------------------------------------------------------
(* Inputs of the mapping, detection and validation functions *)

RECURSIVE SeqsUpTo(_, _)
\* The sequences over S of length at most n.
SeqsUpTo(S, n) ==
    IF n = 0 THEN {<<>>}
    ELSE LET shorter == SeqsUpTo(S, n - 1)
         IN shorter \cup {Append(q, x) : q \in {r \in shorter : Len(r) = n - 1}, x \in S}

H_email == <<"e", "m", "a", "i", "l">>
H_mail == <<"m", "a", "i", "l">>
H_name == <<"n", "a", "m", "e">>
H_x == <<"x">>
H_ID == <<" ", "I", "D", ".">>

HeaderPool == {H_email, H_mail, H_name, H_x, H_ID}

HeaderLists == SeqsUpTo(HeaderPool, MaxHeaders)

\* The sample rows: none; a row with an e-mail address under "x" and a blank
\* one; that row and one with another value under "x".
SampleRowSets ==
    {<<>>,
     <<(H_x :> "a@x.io") @@ (H_ID :> " 12 "), (H_x :> " ")>>,
     <<(H_x :> "a@x.io") @@ (H_ID :> " 12 "), (H_x :> "zz") @@ (H_name :> "zz")>>}

DiceStrings == SeqsUpTo({"a", "b"}, MaxStrLen)

\* A schema given to generateMappingSuggestions that declares an optional
\* e-mail field before the required one, both with the e-mail sample pattern.
CC_SCHEMA ==
    [source |-> "calendly",
     fields |-> <<
        [Field(<<"c", "c">>, <<"C", "c">>, "email", FALSE, <<>>)
            EXCEPT !.hasPattern = TRUE, !.samplePattern = EmailPattern],
        [Field(<<"m", "a", "i", "l">>, <<"E", "-", "m", "a", "i", "l">>, "email",
               TRUE, <<>>)
            EXCEPT !.hasPattern = TRUE, !.samplePattern = EmailPattern] >>]

\* The raw status values: mapped ones, as written in the tables and with
\* upper case and white space around them, and values without a mapping.
StatusValues ==
    {<<"p", "a", "i", "d">>,
     <<"P", "a", "i", "d", " ">>,
     <<" ", "N", "o", " ", "S", "h", "o", "w">>,
     <<"c", "a", "n", "c", "e", "l", "e", "d">>,
     <<"z", "z">>,
     <<" ", "Z", "z">>,
     <<"c", "o", "n", "s", "t", "r", "u", "c", "t", "o", "r">>}

StatusSources == {"stripe", "calendly", "passline"}

MapSchemas == {SCHEMAS[k] : k \in DOMAIN SCHEMAS} \cup {CC_SCHEMA}

ValidValue(field) ==
    CASE field.type = "email" -> "a@x.io"
      [] field.type = "number" -> "12"
      [] field.type = "currency" -> "$12"
      [] field.type \in {"date", "timestamp"} -> "2024-01-02"
      [] field.type = "enum" -> "Failed"
      [] OTHER -> "zz"

RECURSIVE MappedRows(_)
\* The mapped rows over the fields: each field absent, null, blank, valid or "zz".
MappedRows(fields) ==
    IF fields = <<>> THEN {<<>>}
    ELSE LET rest == MappedRows(Tail(fields))
             f == Head(fields)
         IN rest \cup {(f.key :> v) @@ r :
                            r \in rest, v \in {NULL, " ", ValidValue(f), "zz"}}

RowIndexes == {1, 2}

IdleJob == [op |-> "none", pc |-> "done"]

Jobs ==
    {[op |-> "dice", pc |-> "input", a |-> a, b |-> b] :
        a \in DiceStrings, b \in DiceStrings}
    \cup {[op |-> "status", pc |-> "input", value |-> v, source |-> src] :
            v \in StatusValues, src \in StatusSources}
    \cup {[op |-> "map", pc |-> "input", headers |-> h, schema |-> sch,
           sampleRows |-> s] :
            h \in HeaderLists, sch \in MapSchemas, s \in SampleRowSets}
    \cup {[op |-> "detect", pc |-> "input", headers |-> h, sampleRows |-> s] :
            h \in HeaderLists, s \in SampleRowSets}
    \cup UNION {{[op |-> "validate", pc |-> "input", schema |-> SCHEMAS[k],
                  row |-> r, rowIndex |-> i] :
                    r \in MappedRows(SCHEMAS[k].fields), i \in RowIndexes} :
                k \in DOMAIN SCHEMAS}

-----------------------------------------------------------------------------
(* Actions *)

InitStore ==
    /\ customers = <<>>
    /\ sources = {}
    /\ conflicts = <<>>
    /\ records = {}
    /\ last = IdleFrame
    /\ call = [p \in Procs |-> IdleFrame]
    /\ imp = IdleImport
    /\ ncalls = 0
    /\ nimports = 0
    /\ nfaults = 0

Init == InitStore /\ job = IdleJob

NoCallInFlight == \A p \in Procs : call[p].pc = "idle"

\* The errors the store may still report: none when faulty is FALSE.
Budget(faulty) == IF faulty THEN MaxFaults - nfaults ELSE 0

\* One stitchIdentity call, start to end.
Stitch(Args, faulty) ==
    /\ UNCHANGED job
    /\ ~imp.active
    /\ NoCallInFlight
    /\ ncalls < MaxCalls
    /\ \E a \in Args :
        \E o \in stitchIdentity(DB, a.source, a.externalId, a.email, a.name,
                                Budget(faulty)) :
            /\ customers' = o.db.customers
            /\ sources' = o.db.sources
            /\ conflicts' = o.db.conflicts
            /\ last' = o.f
            /\ nfaults' = nfaults + Cardinality(o.f.failed)
    /\ ncalls' = ncalls + 1
    /\ UNCHANGED <<records, call, imp, nimports>>

\* uploadCSV up to the row loop: the import record is created.
UploadStart(ImportSrcs) ==
    /\ UNCHANGED job
    /\ ~imp.active
    /\ NoCallInFlight
    /\ nimports < MaxImports
    /\ \E source \in ImportSrcs, totalRows \in 0..(MaxCalls - ncalls) :
        imp' = [IdleImport EXCEPT !.active = TRUE, !.importId = nimports + 1,
                    !.source = source, !.totalRows = totalRows,
                    !.status = "processing"]
    /\ nimports' = nimports + 1
    /\ last' = IdleFrame
    /\ UNCHANGED <<customers, sources, conflicts, records, call, ncalls, nfaults>>

\* One iteration of the row loop of uploadCSV.
UploadRow(Rows, faulty) ==
    /\ UNCHANGED job
    /\ imp.active
    /\ imp.i < imp.totalRows
    /\ ncalls' = ncalls + 1
    /\ UNCHANGED <<call, nimports>>
    /\ \E row \in Rows :
       IF row.rowErrors > 0
       THEN /\ imp' = RowInvalid(imp, row)
            /\ last' = IdleFrame
            /\ UNCHANGED <<customers, sources, conflicts, records, nfaults>>
       ELSE \E o \in stitchIdentity(DB, imp.source, row.externalId, row.email,
                                    row.name, Budget(faulty)) :
            /\ customers' = o.db.customers
            /\ sources' = o.db.sources
            /\ conflicts' = o.db.conflicts
            /\ last' = o.f
            /\ IF o.f.pc = "thrown"
               THEN /\ imp' = RowCaught(imp, "stitchThrew")
                    /\ nfaults' = nfaults + Cardinality(o.f.failed)
                    /\ UNCHANGED records
               ELSE \E fail \in {FALSE, Cardinality(o.f.failed) < Budget(faulty)} :
                    LET ins == insertSourceRow(records, imp.source, row,
                                    o.f.customerId, imp.importId, fail)
                    IN /\ records' = ins.records
                       /\ nfaults' = nfaults + Cardinality(o.f.failed)
                                        + (IF fail THEN 1 ELSE 0)
                       /\ imp' = IF ins.result = "error"
                                 THEN RowCaught(imp, "insertThrew")
                                 ELSE RowInserted(imp, ins.result = "inserted")

\* uploadCSV after the row loop: the import record is updated and the
\* post-import conflict detection runs.
UploadFinish(faulty) ==
    /\ UNCHANGED job
    /\ imp.active
    /\ imp.i = imp.totalRows
    /\ \E failing \in {F \in SUBSET DetectOps : Cardinality(F) <= Budget(faulty)} :
        \E updateFails \in {FALSE, Cardinality(failing) < Budget(faulty)} :
        LET finalStatus == IF imp.errorRows = imp.totalRows THEN "failed"
                           ELSE "completed"
            det == detectPostImportConflicts(DB, records, imp.importId, failing)
        IN /\ conflicts' = det.db.conflicts
           /\ nfaults' = nfaults + Cardinality(failing)
                            + (IF updateFails THEN 1 ELSE 0)
           /\ imp' = [imp EXCEPT !.active = FALSE,
                        !.status = IF updateFails THEN @ ELSE finalStatus,
                        !.conflictsFound = det.conflictsFound]
    /\ last' = IdleFrame
    /\ UNCHANGED <<customers, sources, records, call, ncalls, nimports>>

\* A process starts a stitchIdentity call.
CallBegin(p, Args) ==
    /\ UNCHANGED job
    /\ ~imp.active
    /\ call[p].pc \in {"idle"} \cup Terminal
    /\ ncalls < MaxCalls
    /\ \E a \in Args :
        call' = [call EXCEPT ![p] =
                    NewFrame(DB, a.source, a.externalId, a.email, a.name)]
    /\ ncalls' = ncalls + 1
    /\ UNCHANGED <<customers, sources, conflicts, records, last, imp, nimports,
                   nfaults>>

\* The call of a process performs the store operation it is suspended at.
CallStep(p, faulty) ==
    /\ UNCHANGED job
    /\ call[p].pc \notin {"idle"} \cup Terminal
    /\ \E o \in StepResults(DB, call[p],
                    Cardinality(call[p].failed) + Budget(faulty)) :
        /\ customers' = o.db.customers
        /\ sources' = o.db.sources
        /\ conflicts' = o.db.conflicts
        /\ call' = [call EXCEPT ![p] = o.f]
        /\ nfaults' = nfaults + Cardinality(o.f.failed) - Cardinality(call[p].failed)
    /\ UNCHANGED <<records, last, imp, ncalls, nimports>>

NextSeq == Stitch(SeqArgs, FALSE)

SpecSeq == Init /\ [][NextSeq]_vars

NextImport ==
    UploadStart(ImportSources) \/ UploadRow(RowSet, FALSE) \/ UploadFinish(FALSE)

SpecImport == Init /\ [][NextImport]_vars

NextFault ==
    UploadStart({"stripe"}) \/ UploadRow(FaultRows, TRUE) \/ UploadFinish(TRUE)

SpecFault == Init /\ [][NextFault]_vars

NextConc == \E p \in Procs : CallBegin(p, ConcArgs) \/ CallStep(p, FALSE)

SpecConc == Init /\ [][NextConc]_vars

-----------------------------------------------------------------------------
(* Calls of the mapping, detection and validation functions *)

StoreUnchanged ==
    UNCHANGED <<customers, sources, conflicts, records, last, call, imp, ncalls,
                nimports, nfaults>>

InitMap == InitStore /\ job \in Jobs

Dice ==
    /\ job.op = "dice" /\ job.pc = "input"
    /\ job' = [op |-> "dice", pc |-> "done", a |-> job.a, b |-> job.b,
               ab |-> diceCoefficient(job.a, job.b),
               ba |-> diceCoefficient(job.b, job.a),
               aa |-> diceCoefficient(job.a, job.a)]
    /\ StoreUnchanged

Generate ==
    /\ job.op = "map" /\ job.pc = "input"
    /\ job' = [op |-> "map", pc |-> "done", headers |-> job.headers,
               schema |-> job.schema, sampleRows |-> job.sampleRows,
               suggestions |-> generateMappingSuggestions(job.headers,
                                    job.schema, job.sampleRows)]
    /\ StoreUnchanged

Detect ==
    /\ job.op = "detect" /\ job.pc = "input"
    /\ job' = [op |-> "detect", pc |-> "detected", headers |-> job.headers,
               sampleRows |-> job.sampleRows,
               results |-> detectSource(job.headers, job.sampleRows)]
    /\ StoreUnchanged

\* isConfidentDetection on the results of detectSource or on the first of them.
Confident ==
    /\ job.op = "detect" /\ job.pc = "detected"
    /\ \E k \in 0..Len(job.results) :
        LET given == SubSeq(job.results, 1, k)
        IN job' = [op |-> "detect", pc |-> "done", headers |-> job.headers,
                   sampleRows |-> job.sampleRows, results |-> job.results,
                   given |-> given, confident |-> isConfidentDetection(given)]
    /\ StoreUnchanged

Validate ==
    /\ job.op = "validate" /\ job.pc = "input"
    /\ job' = [op |-> "validate", pc |-> "done", schema |-> job.schema,
               row |-> job.row, rowIndex |-> job.rowIndex,
               errors |-> validateMappedRow(job.row, job.schema, job.rowIndex)]
    /\ StoreUnchanged

\* The caller normalizes the status of a mapped row.
Normalize ==
    /\ job.op = "status" /\ job.pc = "input"
    /\ job' = [op |-> "status", pc |-> "done", value |-> job.value,
               source |-> job.source,
               result |-> normalizeStatus(job.value, job.source)]
    /\ StoreUnchanged

NextMap == Dice \/ Generate \/ Detect \/ Confident \/ Validate \/ Normalize

SpecMap == InitMap /\ [][NextMap]_vars

-----------------------------------------------------------------------------
(* Properties *)

\* A sequential stitchIdentity call ran from start to end in this step;
\* last' is the call, the unprimed tables are the store it started from.
StitchStep == ncalls' = ncalls + 1 /\ last'.pc \in Terminal

SameArguments(f, g) ==
    /\ f.source = g.source /\ f.externalId = g.externalId
    /\ f.email = g.email /\ f.name = g.name

\* The store has a link for the external id of the call.
ExtMatch(f) ==
    /\ f.externalId # ""
    /\ \E s \in sources : s.source = f.source /\ s.external_id = f.externalId

\* The store has a customer or a link with the email of the call.
EmailMatch(f) ==
    /\ f.email # NULL
    /\ \/ \E i \in CustomerIds(customers) : customers[i].email = f.email
       \/ \E s \in sources : s.external_email = f.email

NoSharedEmail ==
    \A i, j \in CustomerIds(customers) :
        (i # j /\ customers[i].email # NULL) => customers[i].email # customers[j].email

\* C1: a call with the arguments of the call right before it returns the same
\* customerId and adds neither a customer nor a CustomerSource row.
C1_StitchIdempotent ==
    [][(StitchStep /\ last.pc = "returned" /\ SameArguments(last', last))
        => /\ last'.pc = "returned"
           /\ last'.customerId = last.customerId
           /\ Len(customers') = Len(customers)
           /\ Cardinality(sources') = Cardinality(sources)]_vars

\* The customers whose name equals the name of the call but for the case.
SameNameCustomers(f) ==
    {i \in CustomerIds(customers) : SameNameCI(customers[i].name, f.name)}

\* The case of C2: no external-id match, no email match, a name and an email,
\* and exactly one customer of that name, with another email.
NameConflictCase(f) ==
    /\ ~ExtMatch(f) /\ ~EmailMatch(f)
    /\ f.name # NULL /\ f.email # NULL
    /\ Cardinality(SameNameCustomers(f)) = 1
    /\ \A i \in SameNameCustomers(f) :
        customers[i].email # NULL /\ customers[i].email # f.email

\* C2: in the name-conflict case the call creates a customer, returns its id
\* and inserts exactly one pending conflict (name, 0.6) for the existing and
\* the new customer.
C2_NoSilentMerge ==
    [][(StitchStep /\ NameConflictCase(last'))
        => /\ last'.pc = "returned" /\ last'.isNew
           /\ Len(customers') = Len(customers) + 1
           /\ last'.customerId = Len(customers')
           /\ Len(conflicts') = Len(conflicts) + 1
           /\ SubSeq(conflicts', 1, Len(conflicts)) = conflicts
           /\ LET k == conflicts'[Len(conflicts')] IN
                /\ k.match_field = "name" /\ k.confidence = 60
                /\ k.status = "pending"
                /\ {k.customer_a_id, k.customer_b_id}
                      = SameNameCustomers(last') \cup {last'.customerId}]_vars

\* C3: a call returns the id of an existing customer, with isNew = FALSE, only
\* on an external-id or an email match; otherwise it creates exactly one
\* customer and returns its id with isNew = TRUE.
C3_ReuseOnlyOnSafeMatch ==
    [][(StitchStep /\ last'.pc = "returned")
        => IF last'.isNew
           THEN /\ Len(customers') = Len(customers) + 1
                /\ SubSeq(customers', 1, Len(customers)) = customers
                /\ last'.customerId = Len(customers')
                /\ ~ExtMatch(last') /\ ~EmailMatch(last')
           ELSE /\ customers' = customers
                /\ last'.customerId \in CustomerIds(customers)
                /\ \/ /\ last'.matchedBy = "external_id"
                      /\ \E s \in sources :
                            /\ s.source = last'.source
                            /\ s.external_id = last'.externalId
                            /\ s.customer_id = last'.customerId
                   \/ /\ last'.matchedBy = "email"
                      /\ last'.email # NULL
                      /\ \/ customers[last'.customerId].email = last'.email
                         \/ \E s \in sources :
                               /\ s.external_email = last'.email
                               /\ s.customer_id = last'.customerId]_vars

\* A name matched and the call created a customer all the same.
C3_Witness ==
    /\ last.pc = "returned" /\ last.isNew /\ last.name # NULL
    /\ \E i \in 1..last.nCustomers : SameNameCI(customers[i].name, last.name)

\* C4: no step of stitchIdentity or detectPostImportConflicts changes or
\* removes a customer or a conflict, and every conflict added is pending.
C4_AppendOnly ==
    [][/\ Len(customers') >= Len(customers)
       /\ SubSeq(customers', 1, Len(customers)) = customers
       /\ Len(conflicts') >= Len(conflicts)
       /\ SubSeq(conflicts', 1, Len(conflicts)) = conflicts
       /\ \A k \in (Len(conflicts) + 1)..Len(conflicts') :
            conflicts'[k].status = "pending"]_vars

\* Both the row loop and the post-import detection added a conflict.
C4_Witness ==
    /\ ~imp.active /\ imp.conflictsFound > 0
    /\ Len(customers) >= 2
    /\ \E k \in DOMAIN conflicts : conflicts[k].confidence = 50

ReachedCreate(f) == f.reached \cap {"create", "createForConflict"} # {}

\* Two finished calls with the same email and different external ids that
\* both found no match and both reached the create step.
RaceCase ==
    /\ call[1].pc \in Terminal /\ call[2].pc \in Terminal
    /\ call[1].email # NULL /\ call[1].email = call[2].email
    /\ call[1].externalId # call[2].externalId
    /\ ReachedCreate(call[1]) /\ ReachedCreate(call[2])

CustomersWithEmail(email) ==
    {i \in CustomerIds(customers) : customers[i].email = email}

\* C5 as stated: the race leaves two customers with the same email.
C5_RaceLeavesTwoCustomers ==
    RaceCase => Cardinality(CustomersWithEmail(call[1].email)) >= 2

\* C5 as amended: both calls can reach the create step, but the unique index
\* on the email rejects the second insert: exactly one of the calls throws,
\* the other returns the new customer, and no two customers share an email.
C5_RaceRejectedByIndex ==
    /\ NoSharedEmail
    /\ RaceCase =>
        /\ Cardinality(CustomersWithEmail(call[1].email)) = 1
        /\ \E p, q \in Procs :
            /\ p # q
            /\ call[p].pc = "returned" /\ call[p].isNew
            /\ call[q].pc = "thrown" /\ call[q].violation

C5_Witness == RaceCase

\* C6: with the calls one after another, whatever the store reports, no two
\* customers share a non-null email.
C6_SequentialNoSharedEmail ==
    \A i \in CustomerIds(customers) :
        customers[i].email # NULL =>
            CustomersWithEmail(customers[i].email) = {i}

\* A call with an email that a customer of the store already had.
C6_Witness ==
    /\ ncalls >= 2 /\ last.pc \in Terminal /\ last.email # NULL
    /\ \E i \in 1..last.nCustomers : customers[i].email = last.email

\* C7: under any interleaving there is at most one CustomerSource per
\* (source, external_id).
C7_OneLinkPerKey ==
    \A s, t \in sources :
        (s.source = t.source /\ s.external_id = t.external_id) => s = t

Linked(f) == f.reached \cap {"link", "linkEmail", "linkForConflict"} # {}

\* Two interleaved calls for the same (source, external_id) that both wrote
\* the link.
C7_Witness ==
    /\ call[1].pc = "returned" /\ call[2].pc = "returned"
    /\ call[1].source = call[2].source
    /\ call[1].externalId = call[2].externalId
    /\ Linked(call[1]) /\ Linked(call[2])
    /\ call[1].customerId # call[2].customerId

\* C8: a call whose source-link upsert failed still returns the matched or
\* the created customer, and in the name-conflict branch the conflict is
\* inserted (unless its insert failed too).
C8_LinkFailureSwallowed ==
    (last.pc \in Terminal /\ "link" \in last.failed) =>
        /\ last.pc = "returned"
        /\ last.customerId \in CustomerIds(customers)
        /\ last.isNew <=> last.customerId > last.nCustomers
        /\ last.matchedBy \in {"email", "name", "none"}
        /\ last.matchedBy = "email" => last.customerId = last.existing
        /\ (last.matchedBy = "name" /\ "flagConflict" \notin last.failed) =>
            /\ Len(conflicts) = last.nConflicts + 1
            /\ conflicts[Len(conflicts)].customer_a_id = last.existing
            /\ conflicts[Len(conflicts)].customer_b_id = last.customerId

\* The upsert failed in the name-conflict branch.
C8_Witness ==
    /\ last.pc = "returned" /\ "link" \in last.failed
    /\ last.matchedBy = "name"
    /\ Len(conflicts) = last.nConflicts + 1

\* C9: a row whose customer insert fails is counted once as an error row
\* with one error entry, writes no link, conflict or record, and the import
\* goes on with the next row.
C9_CreateFailureIsRowError ==
    [][(imp.active /\ imp'.i = imp.i + 1
        /\ imp'.outcomes[imp'.i] = "stitchThrew")
        => /\ last'.pc = "thrown"
           /\ imp'.errorRows = imp.errorRows + 1
           /\ imp'.errors = Append(imp.errors, imp'.i)
           /\ imp'.importedRows = imp.importedRows
           /\ imp'.skippedRows = imp.skippedRows
           /\ customers' = customers /\ sources' = sources
           /\ conflicts' = conflicts /\ records' = records
           /\ imp'.active /\ imp'.totalRows = imp.totalRows]_vars

\* The row after a row whose customer insert failed was imported.
C9_Witness ==
    /\ Len(imp.outcomes) >= 2
    /\ imp.outcomes[1] = "stitchThrew" /\ imp.outcomes[2] = "imported"
    /\ imp.errorRows = 1 /\ imp.importedRows = 1

\* C10: a call in which a store operation other than the source-link upsert
\* failed throws.
C10_OtherFailuresPropagate ==
    (last.pc \in Terminal /\ last.failed \ {"link"} # {}) => last.pc = "thrown"

-----------------------------------------------------------------------------
\* The step of the row loop that read a row with validation errors.
InvalidRowStep ==
    /\ imp.active /\ imp'.i = imp.i + 1
    /\ imp'.outcomes[imp'.i] = "invalid"

\* C11: a row with at least one validation error is not stitched:
\* the step of uploadCSV that reads it calls no stitchIdentity (no customer,
\* link or conflict changes, no call frame), inserts no source record, counts
\* the row once as an error row and not as imported or skipped, and collects
\* its validation errors.
C11_InvalidRowNotStitched ==
    [][InvalidRowStep =>
        /\ customers' = customers /\ sources' = sources
        /\ conflicts' = conflicts /\ records' = records
        /\ last' = IdleFrame
        /\ imp'.errorRows = imp.errorRows + 1
        /\ imp'.importedRows = imp.importedRows
        /\ imp'.skippedRows = imp.skippedRows
        /\ Len(imp'.errors) > Len(imp.errors)]_vars

\* An import that read a row with two validation errors after it imported a
\* row: one error row, two errors, and the customer of the first row only.
C11_Witness ==
    /\ Len(imp.outcomes) = 2
    /\ imp.outcomes[1] = "imported" /\ imp.outcomes[2] = "invalid"
    /\ imp.errorRows = 1 /\ Len(imp.errors) = 2
    /\ Len(customers) = 1 /\ Cardinality(records) = 1

-----------------------------------------------------------------------------
(* Mapping suggestion engine: properties *)

Generated == job.op = "map" /\ job.pc = "done"

Mapped(s) == s.schemaField # NullField

\* The header normalizes exactly to the normalized key of a field of the schema.
ExactKey(header, schema) ==
    \E k \in DOMAIN schema.fields :
        normalizeHeader(header) = normalizeHeader(schema.fields[k].key)

\* C12: generateMappingSuggestions never returns two suggestions with
\* the same non-null schemaField, whatever the headers (a header string may
\* occur more than once), the schema and the sample rows.
C12_Injective ==
    Generated =>
        \A i, j \in DOMAIN job.suggestions :
            (i # j /\ Mapped(job.suggestions[i]))
                => job.suggestions[i].schemaField # job.suggestions[j].schemaField

C14_OnePerHeader ==
    Generated =>
        /\ Len(job.suggestions) = Len(job.headers)
        /\ \A i \in DOMAIN job.suggestions :
            /\ job.suggestions[i].csvHeader = job.headers[i]
            /\ ~Mapped(job.suggestions[i])
                <=> (job.suggestions[i].confidence = Zero
                        /\ job.suggestions[i].matchType = "none")

\* Three headers of which the second has no match and the others have one.
C14_Witness ==
    /\ Generated
    /\ Len(job.headers) = 3
    /\ Mapped(job.suggestions[1]) /\ ~Mapped(job.suggestions[2])
    /\ Mapped(job.suggestions[3])
    /\ job.suggestions[3].matchType = "pattern"

-----------------------------------------------------------------------------
(* Similarity scorer: properties *)

\* C16: diceCoefficient is symmetric, lies between 0 and 1, is 1 on
\* equal strings, and is 0 on different strings of which one has fewer than 2
\* characters.
C16_DiceSymmetricBounded ==
    (job.op = "dice" /\ job.pc = "done") =>
        /\ job.ab = job.ba
        /\ RLe(Zero, job.ab) /\ RLe(job.ab, One)
        /\ job.aa = One
        /\ (job.a # job.b /\ (Len(job.a) < 2 \/ Len(job.b) < 2)) => job.ab = Zero

\* Two different strings with a common bigram, one of them with a bigram that
\* occurs twice: the score is strictly between 0 and 1.
C16_Witness ==
    /\ job.op = "dice" /\ job.pc = "done"
    /\ job.a = <<"a", "a", "b">> /\ job.b = <<"a", "a", "a">>
    /\ job.ab = Rat(1, 2)

-----------------------------------------------------------------------------
(* Source detector: properties *)

Detected == job.op = "detect" /\ job.pc \in {"detected", "done"}

SchemaOf(source) ==
    SCHEMAS[CHOOSE k \in DOMAIN SCHEMAS : SCHEMAS[k].source = source]

\* C17: detectSource returns one result for each registered schema,
\* in descending order of confidence, so the first has the maximum confidence.
C17_SortedOnePerSchema ==
    Detected =>
        /\ Len(job.results) = Len(SCHEMAS)
        /\ \A k \in DOMAIN SCHEMAS :
            Cardinality({i \in DOMAIN job.results :
                            job.results[i].source = SCHEMAS[k].source}) = 1
        /\ \A i, j \in DOMAIN job.results :
            i < j => RLe(job.results[j].confidence, job.results[i].confidence)

\* Results in strictly descending order that is not the order of the schemas.
C17_Witness ==
    /\ Detected
    /\ job.results[1].source = "calendly" /\ job.results[2].source = "stripe"
    /\ RLt(job.results[2].confidence, job.results[1].confidence)
    /\ RLt(job.results[3].confidence, job.results[2].confidence)

\* C18: the confidence of every DetectionResult lies in [0,1] and its
\* mappedCount does not exceed the number of fields of its schema.
C18_ConfidenceInUnitInterval ==
    Detected =>
        \A i \in DOMAIN job.results :
            /\ RLe(Zero, job.results[i].confidence)
            /\ RLe(job.results[i].confidence, One)
            /\ job.results[i].mappedCount
                <= Len(SchemaOf(job.results[i].source).fields)

Gated == job.op = "detect" /\ job.pc = "done"

\* C19: isConfidentDetection(results) is true exactly when results
\* is not empty, the confidence of the first result is at least 0.5, all its
\* required fields are mapped, and there is no second result or the first
\* confidence exceeds the second by at least 0.15; it is false whenever the
\* first result misses a required field.
C19_ConfidentGate ==
    Gated =>
        /\ job.confident <=>
            /\ Len(job.given) > 0
            /\ RLe(Rat(1, 2), job.given[1].confidence)
            /\ job.given[1].requiredMapped = job.given[1].requiredTotal
            /\ \/ Len(job.given) < 2
               \/ RLe(RAdd(job.given[2].confidence, Rat(15, 100)),
                      job.given[1].confidence)
        /\ (Len(job.given) > 0
                /\ job.given[1].requiredMapped < job.given[1].requiredTotal)
            => ~job.confident

\* The first of several results has confidence above 0.5 and is well ahead of
\* the second, but misses a required field: not confident.
C19_Witness ==
    /\ Gated
    /\ Len(job.given) = 3
    /\ RLe(Rat(1, 2), job.given[1].confidence)
    /\ RLe(RAdd(job.given[2].confidence, Rat(15, 100)), job.given[1].confidence)
    /\ job.given[1].requiredMapped < job.given[1].requiredTotal
    /\ ~job.confident

-----------------------------------------------------------------------------
(* Row validator: properties *)

Validated == job.op = "validate" /\ job.pc = "done"

FieldIndex(schema, key) ==
    CHOOSE k \in DOMAIN schema.fields : schema.fields[k].key = key

\* The field is required and empty, or not empty and not of its type.
FieldFails(row, field) ==
    LET value == FieldValue(row, field)
    IN (field.required /\ value = "") \/ (value # "" /\ ~TypeValid(field, value))

\* C20: validateMappedRow returns at most one error for each field,
\* in the order of the fields of the schema, and an error for every failing
\* field; a required field that is empty or absent has an error with the field,
\* the row index and the value ""; an empty optional field has none.
C20_ValidatesExhaustively ==
    Validated =>
        LET fields == job.schema.fields
            errors == job.errors
        IN /\ \A i \in DOMAIN errors :
                \E k \in DOMAIN fields : fields[k].key = errors[i].field
           /\ \A i, j \in DOMAIN errors :
                i < j => FieldIndex(job.schema, errors[i].field)
                            < FieldIndex(job.schema, errors[j].field)
           /\ \A k \in DOMAIN fields :
                /\ FieldFails(job.row, fields[k])
                    <=> \E i \in DOMAIN errors : errors[i].field = fields[k].key
                /\ (fields[k].required /\ FieldValue(job.row, fields[k]) = "")
                    => \E i \in DOMAIN errors :
                        /\ errors[i].field = fields[k].key
                        /\ errors[i].row = job.rowIndex
                        /\ errors[i].value = ""
                /\ (~fields[k].required /\ FieldValue(job.row, fields[k]) = "")
                    => \A i \in DOMAIN errors : errors[i].field # fields[k].key

\* Row 2 with an absent required field, then a field of the wrong type, then
\* a blank optional field: two errors.
C20_Witness ==
    /\ Validated
    /\ job.rowIndex = 2 /\ job.schema.source = "stripe"
    /\ Len(job.errors) = 2
    /\ job.errors[1].field = job.schema.fields[1].key /\ job.errors[1].value = ""
    /\ job.errors[2].field = job.schema.fields[2].key /\ job.errors[2].value = "zz"
    /\ job.schema.fields[4].key \in DOMAIN job.row
    /\ job.row[job.schema.fields[4].key] = " "

\* The store has a CustomerSource row with the (source, externalId) of the
\* call, the empty external id included.
LinkExists(f) ==
    \E s \in sources : s.source = f.source /\ s.external_id = f.externalId

\* C21: whenever a CustomerSource with the (source, externalId) of the call
\* exists, the call returns the customer of that link with isNew = FALSE and
\* matchedBy = "external_id" and leaves customers, sources and conflicts
\* unchanged.
C21_ExternalIdWins ==
    [][(StitchStep /\ LinkExists(last'))
        => /\ last'.pc = "returned"
           /\ ~last'.isNew /\ last'.matchedBy = "external_id"
           /\ \E s \in sources :
                 /\ s.source = last'.source
                 /\ s.external_id = last'.externalId
                 /\ s.customer_id = last'.customerId
           /\ customers' = customers
           /\ sources' = sources
           /\ conflicts' = conflicts]_vars

DetectStep == imp.active /\ ~imp'.active

\* The customers referenced by a payments, bookings or attendance row of
\* the import.
ImportCustomers(importId) ==
    {r.customer_id : r \in {x \in records : x.import_id = importId}}

\* The conflict records of the unordered pair {a, b}.
PairConflicts(confs, a, b) ==
    {k \in DOMAIN confs :
        \/ confs[k].customer_a_id = a /\ confs[k].customer_b_id = b
        \/ confs[k].customer_a_id = b /\ confs[k].customer_b_id = a}

\* Customers c and d have the same name but for the case, and two emails
\* that differ.
Collide(c, d) ==
    /\ c # d
    /\ SameNameCI(customers[c].name, customers[d].name)
    /\ customers[c].email # NULL /\ customers[d].email # NULL
    /\ customers[c].email # customers[d].email

\* C23: after detectPostImportConflicts(importId), every customer of the
\* import and every other customer of the same name (but for the case) with
\* a different email have a StitchingConflict record, and a pair that had a
\* record before the call has no more records than before.
C23_ScanComplete ==
    [][DetectStep
        => /\ \A c \in ImportCustomers(imp.importId) :
                \A d \in CustomerIds(customers) :
                    Collide(c, d) => PairConflicts(conflicts', c, d) # {}
           /\ \A c, d \in CustomerIds(customers) :
                PairConflicts(conflicts, c, d) # {}
                    => PairConflicts(conflicts', c, d) = PairConflicts(conflicts, c, d)]_vars

\* C24: the number detectPostImportConflicts returns is the number of
\* StitchingConflict records the call added, each with confidence 0.5,
\* status "pending" and the import id.
C24_CountsNewConflicts ==
    [][DetectStep
        => /\ Len(conflicts') = Len(conflicts) + imp'.conflictsFound
           /\ SubSeq(conflicts', 1, Len(conflicts)) = conflicts
           /\ \A k \in (Len(conflicts) + 1)..Len(conflicts') :
                /\ conflicts'[k].confidence = 50
                /\ conflicts'[k].status = "pending"
                /\ conflicts'[k].import_id = imp.importId]_vars

\* The match the scoring pass chose for the i-th header of the call.
Scored(i) ==
    BestMatch(NoMatch, job.headers[i], sortedFields(job.schema), job.sampleRows)

\* The positions of the headers that chose the field in the scoring pass.
Choosers(key) ==
    {i \in DOMAIN job.headers :
        Scored(i).matchType # "none" /\ Scored(i).field = key}

\* The chooser with the highest confidence, the earliest among equals.
Winner(key) ==
    CHOOSE i \in Choosers(key) :
        \A j \in Choosers(key) :
            \/ RLt(Scored(j).confidence, Scored(i).confidence)
            \/ (Scored(j).confidence = Scored(i).confidence /\ i <= j)

Unmapped(i) ==
    [csvHeader |-> job.headers[i], schemaField |-> NullField,
     confidence |-> Zero, matchType |-> "none"]

\* C25: when several headers chose one field in the scoring pass, the header
\* with the highest confidence (the earliest among equal confidences) keeps
\* the field with its confidence and matchType, and every other such header
\* is returned with schemaField null, confidence 0 and matchType "none".
C25_HighestConfidenceWins ==
    Generated =>
        \A k \in DOMAIN job.schema.fields :
            LET key == job.schema.fields[k].key
            IN Cardinality(Choosers(key)) > 1
                => /\ job.suggestions[Winner(key)] =
                        [csvHeader |-> job.headers[Winner(key)],
                         schemaField |-> key,
                         confidence |-> Scored(Winner(key)).confidence,
                         matchType |-> Scored(Winner(key)).matchType]
                   /\ \A j \in Choosers(key) \ {Winner(key)} :
                        job.suggestions[j] = Unmapped(j)

RECURSIVE FirstPassDeclared(_, _, _, _)
\* The first pass with the fields evaluated in the declared order of the
\* schema (the reference of C26).
FirstPassDeclared(headerScores, csvHeaders, schema, sampleRows) ==
    IF csvHeaders = <<>> THEN headerScores
    ELSE LET bestMatch == BestMatch(NoMatch, Head(csvHeaders), schema.fields,
                                    sampleRows)
         IN FirstPassDeclared(IF bestMatch.matchType = "none" THEN headerScores
                              ELSE MapSet(headerScores, Head(csvHeaders), bestMatch),
                              Tail(csvHeaders), schema, sampleRows)

\* The suggestions of the algorithm that evaluates the fields in the declared
\* order.
SuggestionsDeclaredOrder(csvHeaders, schema, sampleRows) ==
    LET scored == FirstPassDeclared(<<>>, csvHeaders, schema, sampleRows)
        resolved == ResolveConflicts(scored, GroupByField(<<>>, scored))
    IN BuildSuggestions(csvHeaders, resolved)

\* C26: generateMappingSuggestions, which evaluates the required fields
\* first, returns the suggestions of the same algorithm evaluating the fields
\* in the declared order of the schema.
C26_SortKeepsOutcomes ==
    Generated =>
        job.suggestions
            = SuggestionsDeclaredOrder(job.headers, job.schema, job.sampleRows)

-----------------------------------------------------------------------------
(* Status normalizer: properties *)

Normalized == job.op = "status" /\ job.pc = "done"

\* The table of the source; a source without one has no keys.
StatusTable(source) ==
    CASE source = "stripe" -> PAYMENT_STATUS_MAP
      [] source = "calendly" -> BOOKING_STATUS_MAP
      [] OTHER -> <<>>

\* The lower-cased and trimmed value is a key of the table of the source.
Recognized(value, source) ==
    \E i \in DOMAIN StatusTable(source) :
        StatusTable(source)[i][1] = trim(toLowerCase(value))

\* C27: for a raw status that, lower-cased and trimmed, is not a key of the
\* table of the source, normalizeStatus returns the value as it was given.
C27_UnrecognizedUnchanged ==
    Normalized => (~Recognized(job.value, job.source) => job.result = job.value)

\* One iteration of the row loop of uploadCSV ran in this step.
RowStep == imp.active /\ imp'.active /\ imp'.i = imp.i + 1

C29_LinksNeverRepointed ==
    [][\A s \in sources : \A t \in sources' :
            (t.source = s.source /\ t.external_id = s.external_id)
                => t.customer_id = s.customer_id]_vars

====
